---- MODULE Spec2Model ----
(***************************************************************************)
(* Metrics tracking, early stopping, CSV logging (src/log.py) and plot     *)
(* title sanitisation (src/scripts/plot.py) of protein-transformer.        *)
(*                                                                         *)
(* Python values are records [k, n, d]: k is the kind ("num", "nan",       *)
(* "inf", "none", "missing"); a number is the rational n/d in lowest       *)
(* terms, so that sums and means are exact and 10/4 = 5/2.  "missing" is a *)
(* dictionary key that has not been created yet (reading it is KeyError).  *)
(***************************************************************************)
EXTENDS Integers, Sequences, FiniteSets, TLC

VARIABLES
    args,      \* the parsed command line (constant during a run)
    metrics,   \* the metrics dictionary of init_metrics
    exc,       \* "none", or the exception / exit that ended the process
    log_rows,  \* rows written through log_writer, oldest first
    wandb,     \* dashboard calls of the latest logging call, oldest first
    passed,    \* per split: the update_metrics inputs since its last reset
    es,        \* bookkeeping about the update_loss_trackers calls made
    budget,    \* calls made so far, by kind (bounds the run)
    title,     \* plot title handed to title_to_fn
    fn         \* what title_to_fn returned, once it has been called

vars == <<args, metrics, exc, log_rows, wandb, passed, es, budget, title, fn>>

\* ------------------------------------------------------------ bounds
MaxVal == 1        \* the losses of a batch are multiples of 0..MaxVal
MaxCalls == 3      \* accumulator calls (update, end of epoch) in one run
MaxPatience == 2   \* args.early_stopping is unset or 0..MaxPatience
MaxEpoch == 4      \* epoch indices are 0..MaxEpoch
MaxStep == 2       \* the step counter of a training batch is 0..MaxStep
MaxLogCalls == 2   \* logging calls (batches, epoch ends, rows) in one run
MaxTitleLen == 4   \* arbitrary plot titles have at most MaxTitleLen characters

\* ------------------------------------------------------------ values
Modes == {"train", "valid", "test"}

F(i) == [k |-> "num", n |-> i, d |-> 1]
None == [k |-> "none", n |-> 0, d |-> 1]
NaN == [k |-> "nan", n |-> 0, d |-> 1]
Inf == [k |-> "inf", n |-> 0, d |-> 1]
Missing == [k |-> "missing", n |-> 0, d |-> 1]

RECURSIVE Gcd(_, _)
Gcd(a, b) == IF b = 0 THEN a ELSE Gcd(b, a % b)

Norm(n, d) ==
    LET g == Gcd(n, d) IN
    IF n = 0 THEN F(0) ELSE [k |-> "num", n |-> n \div g, d |-> d \div g]

\* x + y on floats (non-negative here): NaN is absorbing, then inf.
FAdd(x, y) ==
    IF x.k = "nan" \/ y.k = "nan" THEN NaN
    ELSE IF x.k = "inf" \/ y.k = "inf" THEN Inf
    ELSE Norm(x.n * y.d + y.n * x.d, x.d * y.d)

\* x / n for an integer n > 0.
FDiv(x, n) ==
    IF x.k = "nan" THEN NaN
    ELSE IF x.k = "inf" THEN Inf
    ELSE Norm(x.n, x.d * n)

\* x < y on floats: every comparison with NaN is false.
FLess(x, y) ==
    IF x.k = "nan" \/ y.k = "nan" THEN FALSE
    ELSE IF x.k = "inf" THEN FALSE
    ELSE IF y.k = "inf" THEN TRUE
    ELSE x.n * y.d < y.n * x.d

\* bool(x): None and zero are falsy, everything else (NaN too) is truthy.
Truthy(x) == ~(x.k = "none" \/ (x.k = "num" /\ x.n = 0))

\* ------------------------------------------------------------ init_metrics
NewSplit ==
    [epoch_history_drmsd |-> <<>>, epoch_history_combined |-> <<>>,
     epoch_drmsd |-> Missing, epoch_ln_drmsd |-> Missing, epoch_mse |-> Missing,
     epoch_combined |-> Missing, epoch_rmsd |-> Missing,
     batch_drmsd |-> Missing, batch_ln_drmsd |-> Missing, batch_mse |-> Missing,
     batch_combined |-> Missing, batch_rmsd |-> Missing,
     batch_history |-> Missing, speed |-> Missing, speed_history |-> Missing]

init_metrics(a) ==
    [train |-> NewSplit, valid |-> NewSplit, test |-> NewSplit,
     history_lr |-> IF ~a.lr_scheduling THEN <<F(0)>> ELSE <<>>,
     epoch_last_improved |-> -1,
     best_valid_loss_so_far |-> Inf,
     loss_to_compare |-> Missing]

\* ------------------------------------------------------------ reset_metrics_for_epoch
\* reset_metrics_for_epoch that forgets the batch-combined field.
reset_metrics_for_epoch_KeepsBatch(m, mode) ==
    [m EXCEPT ![mode] =
        [@ EXCEPT !.epoch_drmsd = F(0), !.batch_drmsd = F(0),
                  !.epoch_ln_drmsd = F(0), !.batch_ln_drmsd = F(0),
                  !.epoch_mse = F(0), !.batch_mse = F(0),
                  !.epoch_combined = F(0),
                  !.epoch_rmsd = IF mode = "train" THEN None ELSE F(0),
                  !.batch_rmsd = IF mode = "train" THEN None ELSE F(0),
                  !.batch_history = <<>>,
                  !.speed_history = <<>>]]

reset_metrics_for_epoch(m, mode) ==
    [m EXCEPT ![mode] =
        [@ EXCEPT !.epoch_drmsd = F(0), !.batch_drmsd = F(0),
                  !.epoch_ln_drmsd = F(0), !.batch_ln_drmsd = F(0),
                  !.epoch_mse = F(0), !.batch_mse = F(0),
                  !.epoch_combined = F(0), !.batch_combined = F(0),
                  !.epoch_rmsd = IF mode = "train" THEN None ELSE F(0),
                  !.batch_rmsd = IF mode = "train" THEN None ELSE F(0),
                  !.batch_history = <<>>,
                  !.speed_history = <<>>]]

\* ------------------------------------------------------------ update_metrics
\* The batch-level overwrite of lines 227-232.
SetBatchFields(s, c, batch_level) ==
    IF ~batch_level THEN s
    ELSE [s EXCEPT !.batch_drmsd = c.drmsd,
                   !.batch_ln_drmsd = c.ln_drmsd,
                   !.batch_mse = c.mse,
                   !.batch_combined = c.combined,
                   !.batch_rmsd = IF Truthy(c.rmsd) THEN c.rmsd ELSE @]

\* AddEpochFields with the ln-drmsd sum fed from drmsd.
AddEpochFields_WrongField(s, c) ==
    [s EXCEPT !.epoch_drmsd = FAdd(@, c.drmsd),
              !.epoch_ln_drmsd = FAdd(@, c.drmsd),
              !.epoch_mse = FAdd(@, c.mse),
              !.epoch_combined = FAdd(@, c.combined)]

\* The running sums of lines 233-236.
AddEpochFields(s, c) ==
    [s EXCEPT !.epoch_drmsd = FAdd(@, c.drmsd),
              !.epoch_ln_drmsd = FAdd(@, c.ln_drmsd),
              !.epoch_mse = FAdd(@, c.mse),
              !.epoch_combined = FAdd(@, c.combined)]

\* Lines 245-246: the tracking loss is appended when it is truthy.
AppendTracking(s, c) ==
    IF Truthy(c.tracking_loss)
    THEN [s EXCEPT !.batch_history = Append(@, c.tracking_loss)]
    ELSE s

\* Lines 240-243.  The speed is residues per second of wall-clock time since
\* the previous batch: an input, c.speed.
SetSpeed(s, c) ==
    [s EXCEPT !.speed = c.speed, !.speed_history = Append(@, c.speed)]

\* c is the call: [drmsd, ln_drmsd, mse, combined, rmsd, tracking_loss, speed].
\* The result is the dictionary as the call leaves it and the exception it
\* ends with, if any: the dictionary is mutated in place, so what was written
\* before the exception stays written.
update_metrics(m, mode, c, batch_level) ==
    LET s1 == SetBatchFields(m[mode], c, batch_level) IN
    IF s1.epoch_drmsd.k = "missing"
    THEN [metrics |-> [m EXCEPT ![mode] = s1], exc |-> "KeyError"]
    ELSE
    LET s2 == AddEpochFields(s1, c) IN
    IF Truthy(c.rmsd) /\ s2.epoch_rmsd.k = "none"
    THEN [metrics |-> [m EXCEPT ![mode] = s2], exc |-> "TypeError"]
    ELSE
    LET s3 == IF Truthy(c.rmsd)
              THEN [s2 EXCEPT !.epoch_rmsd = FAdd(@, c.rmsd)] ELSE s2
        s4 == SetSpeed(s3, c)
        s5 == AppendTracking(s4, c)
    IN [metrics |-> [m EXCEPT ![mode] = s5], exc |-> "none"]

\* ------------------------------------------------------------ update_metrics_end_of_epoch
update_metrics_end_of_epoch(m, mode, n_batches) ==
    LET s == m[mode] IN
    IF s.epoch_drmsd.k = "missing" THEN [metrics |-> m, exc |-> "KeyError"]
    ELSE IF n_batches = 0 THEN [metrics |-> m, exc |-> "ZeroDivisionError"]
    ELSE
    LET s1 == [s EXCEPT !.epoch_drmsd = FDiv(@, n_batches),
                        !.epoch_ln_drmsd = FDiv(@, n_batches),
                        !.epoch_mse = FDiv(@, n_batches),
                        !.epoch_combined = FDiv(@, n_batches),
                        !.epoch_rmsd = IF mode = "train" THEN None
                                       ELSE FDiv(@, n_batches)]
        s2 == [s1 EXCEPT !.epoch_history_combined = Append(@, s1.epoch_combined),
                         !.epoch_history_drmsd = Append(@, s1.epoch_drmsd)]
    IN [metrics |-> [m EXCEPT ![mode] = s2], exc |-> "none"]

\* ------------------------------------------------------------ update_loss_trackers
\* Lines 107-110 and 111-116: the split and the epoch value compared.
CmpMode(a) == IF a.train_only THEN "train" ELSE "valid"

CmpLoss(a, m) ==
    IF a.combined_loss THEN m[CmpMode(a)].epoch_combined
    ELSE m[CmpMode(a)].epoch_drmsd

\* Improved with a tie counted as an improvement.
Improved_OrEqual(loss, best) == ~FLess(best, loss)

\* Line 119.
Improved(loss, best) == FLess(loss, best)

\* PatienceExceeded raising one epoch early.
PatienceExceeded_Early(a, epoch_i, m) ==
    /\ Truthy(a.early_stopping)
    /\ epoch_i - m.epoch_last_improved >= a.early_stopping.n

\* PatienceExceeded without the test that a patience was given.
PatienceExceeded_NoGuard(a, epoch_i, m) ==
    epoch_i - m.epoch_last_improved > a.early_stopping.n

\* Line 122.
PatienceExceeded(a, epoch_i, m) ==
    /\ Truthy(a.early_stopping)
    /\ epoch_i - m.epoch_last_improved > a.early_stopping.n

\* metrics["losses_to_compare"] (line 128) is an alias of the split's epoch
\* history list and holds no state of its own.
update_loss_trackers(a, epoch_i, m) ==
    LET loss_to_compare == CmpLoss(a, m) IN
    IF loss_to_compare.k = "missing" THEN [metrics |-> m, exc |-> "KeyError"]
    ELSE IF Improved(loss_to_compare, m.best_valid_loss_so_far)
    THEN [metrics |-> [m EXCEPT !.best_valid_loss_so_far = loss_to_compare,
                                !.epoch_last_improved = epoch_i,
                                !.loss_to_compare = loss_to_compare],
          exc |-> "none"]
    ELSE IF PatienceExceeded(a, epoch_i, m)
    THEN [metrics |-> m, exc |-> "EarlyStoppingCondition"]
    ELSE [metrics |-> [m EXCEPT !.loss_to_compare = loss_to_compare],
          exc |-> "none"]

\* ------------------------------------------------------------ prepare_log_header
\* The header line, split at its commas.
prepare_log_header(a) ==
    IF a.combined_loss
    THEN <<"drmsd", "ln_drmsd", "rmse", "rmsd", "combined", "lr", "mode",
           "granularity", "time", "speed">>
    ELSE <<"drmsd", "ln_drmsd", "rmse", "rmsd", "lr", "mode", "granularity",
           "time", "speed">>

\* ------------------------------------------------------------ log_batch
\* np.sqrt, kept symbolic: the square root of n/d.
Sqrt(x) == IF x.k = "num" THEN [k |-> "sqrt", n |-> x.n, d |-> x.d] ELSE x

\* round(t - start_time, 4): wall-clock time, one opaque value.
Elapsed == [k |-> "time", n |-> 0, d |-> 1]

\* Lines 138-141.
BatchOrEpoch(end_of_epoch) == IF end_of_epoch THEN "epoch" ELSE "batch"

\* One value of a row and the quantity it is (the header name that
\* prepare_log_header gives that quantity).
Cell(col, val) == [col |-> col, val |-> val]

\* The values of lines 142-143, read from the batch-level or the epoch-level
\* fields.
RowValues(s, end_of_epoch) ==
    IF BatchOrEpoch(end_of_epoch) = "epoch"
    THEN <<s.epoch_drmsd, s.epoch_ln_drmsd, Sqrt(s.epoch_mse), s.epoch_rmsd,
           s.epoch_combined>>
    ELSE <<s.batch_drmsd, s.batch_ln_drmsd, Sqrt(s.batch_mse), s.batch_rmsd,
           s.batch_combined>>

\* The granularity value of line 144.
Granularity(end_of_epoch) == "epoch"

\* The row of lines 142-144, or the exception a missing key or an empty
\* learning-rate history raises while the row is built.
log_batch(m, mode, end_of_epoch) ==
    LET v == RowValues(m[mode], end_of_epoch) IN
    IF \E i \in 1..Len(v) : v[i].k = "missing"
    THEN [row |-> <<>>, exc |-> "KeyError"]
    ELSE IF m.history_lr = <<>> THEN [row |-> <<>>, exc |-> "IndexError"]
    ELSE IF m[mode].speed.k = "missing" THEN [row |-> <<>>, exc |-> "KeyError"]
    ELSE [row |-> <<Cell("drmsd", v[1]), Cell("ln_drmsd", v[2]),
                    Cell("rmse", v[3]), Cell("rmsd", v[4]),
                    Cell("combined", v[5]),
                    Cell("lr", m.history_lr[Len(m.history_lr)]),
                    Cell("mode", mode),
                    Cell("granularity", Granularity(end_of_epoch)),
                    Cell("time", Elapsed),
                    Cell("speed", m[mode].speed)>>,
          exc |-> "none"]

\* ------------------------------------------------------------ do_train_batch_logging
\* Line 154.
DoLogStr(a, step) == step = 0 \/ a.log_structure_step % step = 0

\* Lines 158 and 166.
DoLogWandb(a, step) == step = 0 \/ a.log_wandb_step % step = 0

\* Lines 158-167 with the first call's commit decided without do_log_str.
TrainWandbCalls_CommitEarly(a, step) ==
    (IF DoLogWandb(a, step)
     THEN <<[what |-> "train", commit |-> ~a.lr_scheduling]>>
     ELSE <<>>) \o
    (IF a.lr_scheduling /\ DoLogWandb(a, step)
     THEN <<[what |-> "lr", commit |-> ~DoLogStr(a, step)]>>
     ELSE <<>>)

\* The dashboard calls of lines 158-167, in order.
TrainWandbCalls(a, step) ==
    (IF DoLogWandb(a, step)
     THEN <<[what |-> "train", commit |-> ~a.lr_scheduling /\ ~DoLogStr(a, step)]>>
     ELSE <<>>) \o
    (IF a.lr_scheduling /\ DoLogWandb(a, step)
     THEN <<[what |-> "lr", commit |-> ~DoLogStr(a, step)]>>
     ELSE <<>>)

\* log_structure, lines 178-184: two point clouds, the second with the
\* default commit.
log_structure == <<[what |-> "backbone_cloud", commit |-> FALSE],
                   [what |-> "structure_cloud", commit |-> TRUE]>>

\* Line 171 without the exit.
IsNanLoss_Never(loss) == FALSE

\* Line 171.
IsNanLoss(loss) == loss.k = "nan"

\* The call: c holds the four losses and the tracking loss `loss`.  The
\* result is the dictionary, the row written (none when an exception came
\* first), the dashboard calls made and how the call ended.
do_train_batch_logging(m, c, cur_lr, a, step) ==
    LET u == update_metrics(m, "train", c, TRUE) IN
    IF u.exc # "none"
    THEN [metrics |-> u.metrics, rows |-> <<>>, wandb |-> <<>>, exc |-> u.exc]
    ELSE
    LET m1 == IF a.lr_scheduling
              THEN [u.metrics EXCEPT !.history_lr = Append(@, cur_lr)]
              ELSE u.metrics
        w == TrainWandbCalls(a, step)
        lb == log_batch(m1, "train", FALSE)
    IN
    IF lb.exc # "none"
    THEN [metrics |-> m1, rows |-> <<>>, wandb |-> w, exc |-> lb.exc]
    ELSE IF IsNanLoss(c.tracking_loss)
    THEN [metrics |-> m1, rows |-> <<lb.row>>, wandb |-> w, exc |-> "SystemExit(1)"]
    ELSE [metrics |-> m1, rows |-> <<lb.row>>,
          wandb |-> IF DoLogStr(a, step) THEN w \o log_structure ELSE w,
          exc |-> "none"]

\* ------------------------------------------------------------ title_to_fn
\* A string is the sequence of its characters.
\* str.replace: every occurrence of old, left to right, without overlap.
RECURSIVE Replace(_, _, _)
Replace(str, old, new) ==
    IF Len(str) < Len(old) THEN str
    ELSE IF SubSeq(str, 1, Len(old)) = old
    THEN new \o Replace(SubSeq(str, Len(old) + 1, Len(str)), old, new)
    ELSE <<str[1]>> \o Replace(Tail(str), old, new)

\* str.find of one character: the 0-based index of its first occurrence, or -1.
Find(str, ch) ==
    IF \E i \in 1..Len(str) : str[i] = ch
    THEN (CHOOSE i \in 1..Len(str) :
              str[i] = ch /\ \A j \in 1..(i - 1) : str[j] # ch) - 1
    ELSE -1

UpperCase == <<"A", "B", "C", "D", "E", "F", "G", "H", "I", "J", "K", "L", "M",
               "N", "O", "P", "Q", "R", "S", "T", "U", "V", "W", "X", "Y", "Z">>
LowerCase == <<"a", "b", "c", "d", "e", "f", "g", "h", "i", "j", "k", "l", "m",
               "n", "o", "p", "q", "r", "s", "t", "u", "v", "w", "x", "y", "z">>

\* str.lower on ASCII.
Lower(str) ==
    [i \in 1..Len(str) |->
        IF \E k \in 1..Len(UpperCase) : UpperCase[k] = str[i]
        THEN LowerCase[CHOOSE k \in 1..Len(UpperCase) : UpperCase[k] = str[i]]
        ELSE str[i]]

\* Line 36.
RemoveTimeNotation(t) ==
    Replace(Replace(Replace(t, <<" ", "=", " ", "[">>, <<"_">>),
                    <<",", " ", ")">>, <<"_">>),
            <<",", " ">>, <<"_">>)

\* Line 37: title[title.find('\n')+1:].
AfterNewline(t) == SubSeq(t, Find(t, "\n") + 2, Len(t))

\* replace_chars without the full stop.
replace_chars_NoStop == <<" ", ",", "=", "[", "]", "(", ")", "$">>

\* Line 38.
replace_chars == <<" ", ",", "=", "[", "]", "(", ")", ".", "$">>

\* Lines 39-40.
RECURSIVE ReplaceEach(_, _)
ReplaceEach(t, chars) ==
    IF chars = <<>> THEN t
    ELSE ReplaceEach(Replace(t, <<chars[1]>>, <<"_">>), Tail(chars))

title_to_fn(t) ==
    Lower(ReplaceEach(AfterNewline(RemoveTimeNotation(t)), replace_chars))

\* main, lines 77-78, 97 and 101: the title of the plot of a metric, with
\* the time range when the first skip_first iterations are skipped (skip is
\* the number's digits, <<>> when nothing is skipped).
MainTitle(model_name, metric, skip) ==
    model_name \o <<"\n">> \o metric \o <<" ", "L", "o", "s", "s">> \o
    (IF skip = <<>> THEN <<>>
     ELSE <<",", " ", "t", " ", "=", " ", "[">> \o skip \o <<",", " ", ")">>)

\* ------------------------------------------------------------ inputs
\* The four losses of one batch.  They are tied to one number v so that the
\* fields differ from each other whenever v > 0.
Batch(v) == [drmsd |-> F(v), ln_drmsd |-> F(2 * v), mse |-> F(3 * v),
             combined |-> F(5 * v)]

\* One update_metrics call: the losses, the optional rmsd and tracking loss,
\* and the measured speed.
Call(b, rmsd, tracking_loss, speed, batch_level) ==
    [drmsd |-> b.drmsd, ln_drmsd |-> b.ln_drmsd, mse |-> b.mse,
     combined |-> b.combined, rmsd |-> rmsd, tracking_loss |-> tracking_loss,
     speed |-> speed, batch_level |-> batch_level]

\* As the training step passes them (a tracking loss, no rmsd) and as the
\* evaluation step does (an rmsd, no tracking loss); v = 0 makes either zero.
Calls ==
    { Call(Batch(v), None, F(v), F(1), TRUE) : v \in 0..MaxVal } \cup
    { Call(Batch(v), F(v), None, F(1), FALSE) : v \in 0..MaxVal }

NoCall == Call(Batch(0), None, None, F(0), FALSE)

DefaultArgs ==
    [train_only |-> FALSE, combined_loss |-> FALSE, early_stopping |-> None,
     lr_scheduling |-> FALSE, log_structure_step |-> 1, log_wandb_step |-> 1]

NewPassed == [reset |-> FALSE, ev |-> <<>>]

NoFn == [done |-> FALSE, name |-> <<>>]

\* What has been seen of update_loss_trackers: the calls made, the epoch index
\* of the latest, whether the indices were consecutive so far, the least
\* epoch mean compared so far, whether some call compared a mean strictly
\* below all before it, the calls made since the latest such call, and the
\* EarlyStoppingCondition exceptions raised; and whether an epoch has been
\* run since the latest call.
NewEs == [calls |-> 0, last_epoch |-> -1, consecutive |-> TRUE, least |-> Inf,
          improved |-> FALSE, since |-> 0, raised |-> 0, fresh |-> FALSE]

InitRest ==
    /\ metrics = init_metrics(args)
    /\ exc = "none"
    /\ log_rows = <<>>
    /\ wandb = <<>>
    /\ passed = [m \in Modes |-> NewPassed]
    /\ es = NewEs
    /\ budget = [calls |-> 0]
    /\ title = <<>>
    /\ fn = NoFn

\* ------------------------------------------------------------ accumulator steps
ResetMetricsForEpoch(mode) ==
    /\ exc = "none"
    /\ metrics' = reset_metrics_for_epoch(metrics, mode)
    /\ passed' = [passed EXCEPT ![mode] = [reset |-> TRUE, ev |-> <<>>]]
    /\ UNCHANGED <<args, exc, log_rows, wandb, es, budget, title, fn>>

UpdateMetrics(mode, c) ==
    /\ exc = "none"
    /\ budget.calls < MaxCalls
    /\ LET r == update_metrics(metrics, mode, c, c.batch_level) IN
        /\ metrics' = r.metrics
        /\ exc' = r.exc
    /\ passed' = [passed EXCEPT ![mode].ev =
                    Append(@, [op |-> "update", c |-> c, n |-> 0])]
    /\ budget' = [budget EXCEPT !.calls = @ + 1]
    /\ UNCHANGED <<args, log_rows, wandb, es, title, fn>>

UpdateMetricsEndOfEpoch(mode, n_batches) ==
    /\ exc = "none"
    /\ budget.calls < MaxCalls
    /\ LET r == update_metrics_end_of_epoch(metrics, mode, n_batches) IN
        /\ metrics' = r.metrics
        /\ exc' = r.exc
    /\ passed' = [passed EXCEPT ![mode].ev =
                    Append(@, [op |-> "end", c |-> NoCall, n |-> n_batches])]
    /\ budget' = [budget EXCEPT !.calls = @ + 1]
    /\ UNCHANGED <<args, log_rows, wandb, es, title, fn>>

\* ------------------------------------------------------------ early stopping steps
\* One epoch of a single batch on a split, as the training loop runs it:
\* reset_metrics_for_epoch, update_metrics, update_metrics_end_of_epoch(.., 1).
RunEpoch(mode, c) ==
    /\ exc = "none"
    /\ ~es.fresh
    /\ LET u == update_metrics(reset_metrics_for_epoch(metrics, mode), mode, c,
                               c.batch_level)
           e == update_metrics_end_of_epoch(u.metrics, mode, 1)
       IN
        /\ metrics' = IF u.exc = "none" THEN e.metrics ELSE u.metrics
        /\ exc' = IF u.exc = "none" THEN e.exc ELSE u.exc
    /\ passed' = [passed EXCEPT ![mode] =
                    [reset |-> TRUE,
                     ev |-> <<[op |-> "update", c |-> c, n |-> 0],
                              [op |-> "end", c |-> NoCall, n |-> 1]>>]]
    /\ es' = [es EXCEPT !.fresh = TRUE]
    /\ UNCHANGED <<args, log_rows, wandb, budget, title, fn>>

UpdateLossTrackers(epoch_i) ==
    /\ exc = "none"
    /\ es.calls <= MaxEpoch
    /\ LET r == update_loss_trackers(args, epoch_i, metrics)
           loss == CmpLoss(args, metrics)
           better == FLess(loss, es.least)
       IN
        /\ metrics' = r.metrics
        /\ exc' = r.exc
        /\ es' = IF r.exc = "KeyError" THEN es
                 ELSE [calls |-> es.calls + 1,
                       last_epoch |-> epoch_i,
                       consecutive |-> es.consecutive /\
                           (es.calls = 0 \/ epoch_i = es.last_epoch + 1),
                       least |-> IF better THEN loss ELSE es.least,
                       improved |-> es.improved \/ better,
                       since |-> IF better THEN 0 ELSE es.since + 1,
                       raised |-> es.raised +
                           (IF r.exc = "EarlyStoppingCondition" THEN 1 ELSE 0),
                       fresh |-> FALSE]
    /\ UNCHANGED <<args, log_rows, wandb, passed, budget, title, fn>>

\* ------------------------------------------------------------ logging steps
\* log_rows keeps, with each row, the call that wrote it.
Logged(row, mode, end_of_epoch) ==
    [row |-> row, mode |-> mode, end_of_epoch |-> end_of_epoch]

DoTrainBatchLogging(c, step) ==
    /\ exc = "none"
    /\ budget.calls < MaxLogCalls
    /\ LET r == do_train_batch_logging(metrics, c, F(step + 1), args, step) IN
        /\ metrics' = r.metrics
        /\ exc' = r.exc
        /\ wandb' = r.wandb
        /\ log_rows' = IF r.rows = <<>> THEN log_rows
                       ELSE Append(log_rows, Logged(r.rows[1], "train", FALSE))
    /\ passed' = [passed EXCEPT !["train"].ev =
                    Append(@, [op |-> "update", c |-> c, n |-> 0])]
    /\ budget' = [budget EXCEPT !.calls = @ + 1]
    /\ UNCHANGED <<args, es, title, fn>>

\* do_eval_epoch_logging, lines 188-200: update_metrics with the rmsd and
\* without batch fields, then one dashboard call.
DoEvalEpochLogging(mode, c) ==
    /\ exc = "none"
    /\ budget.calls < MaxLogCalls
    /\ LET r == update_metrics(metrics, mode, c, FALSE) IN
        /\ metrics' = r.metrics
        /\ exc' = r.exc
        /\ wandb' = IF r.exc = "none"
                    THEN <<[what |-> "eval", commit |-> TRUE]>> ELSE <<>>
    /\ passed' = [passed EXCEPT ![mode].ev =
                    Append(@, [op |-> "update", c |-> c, n |-> 0])]
    /\ budget' = [budget EXCEPT !.calls = @ + 1]
    /\ UNCHANGED <<args, log_rows, es, title, fn>>

\* update_metrics_end_of_epoch within a logged run.
EndOfEpochLogged(mode, n_batches) ==
    /\ budget.calls < MaxLogCalls
    /\ UpdateMetricsEndOfEpoch(mode, n_batches)

LogBatch(mode, end_of_epoch) ==
    /\ exc = "none"
    /\ budget.calls < MaxLogCalls
    /\ LET r == log_batch(metrics, mode, end_of_epoch) IN
        /\ exc' = r.exc
        /\ log_rows' = IF r.exc = "none"
                       THEN Append(log_rows, Logged(r.row, mode, end_of_epoch))
                       ELSE log_rows
    /\ budget' = [budget EXCEPT !.calls = @ + 1]
    /\ UNCHANGED <<args, metrics, wandb, passed, es, title, fn>>

\* ------------------------------------------------------------ the accumulator on its own
InitAccum ==
    /\ args = DefaultArgs
    /\ InitRest

NextAccum ==
    \/ \E mode \in Modes : ResetMetricsForEpoch(mode)
    \/ \E mode \in Modes, c \in Calls : UpdateMetrics(mode, c)
    \/ \E mode \in Modes, n \in 0..(MaxCalls - 1) : UpdateMetricsEndOfEpoch(mode, n)

SpecAccum == InitAccum /\ [][NextAccum]_vars

\* ------------------------------------------------------------ early stopping over the evaluated split
Patiences == {None} \cup {F(p) : p \in 0..MaxPatience}

\* Validation drmsd or training combined loss is compared.
InitEarly ==
    /\ args \in {[DefaultArgs EXCEPT !.early_stopping = p, !.train_only = t,
                                     !.combined_loss = t] :
                    p \in Patiences, t \in BOOLEAN}
    /\ InitRest

\* One epoch per update_loss_trackers call at most, of the batches the
\* evaluated split gets (training batches or evaluation batches); the epoch
\* index starts anywhere and then goes on to the next epoch or skips one.
EarlyCalls == { c \in Calls : c.batch_level = args.train_only }

EpochIndices ==
    IF es.calls = 0 THEN 0..MaxEpoch
    ELSE {es.last_epoch + 1, es.last_epoch + 2} \cap 0..MaxEpoch

NextEarly ==
    \/ \E c \in EarlyCalls : RunEpoch(CmpMode(args), c)
    \/ \E epoch_i \in EpochIndices : UpdateLossTrackers(epoch_i)

SpecEarly == InitEarly /\ [][NextEarly]_vars

\* ------------------------------------------------------------ logging a run
\* Training batches: the tracking loss is the batch's drmsd, or NaN.
TrainCalls ==
    { Call(Batch(v), None, F(v), F(1), TRUE) : v \in 0..MaxVal } \cup
    { Call(Batch(v), None, NaN, F(1), TRUE) : v \in 0..MaxVal }

\* Evaluation batches carry an rmsd and no tracking loss.
EvalCalls == { c \in Calls : ~c.batch_level }

\* Every logging configuration in combined-loss mode, and the default one
\* without it.
Init ==
    /\ args \in {DefaultArgs} \cup
                {[DefaultArgs EXCEPT !.combined_loss = TRUE, !.lr_scheduling = l,
                                     !.log_structure_step = s,
                                     !.log_wandb_step = w] :
                    l \in BOOLEAN, s \in 1..2, w \in 1..2}
    /\ InitRest

Next ==
    \/ \E mode \in {"train", "valid"} : ResetMetricsForEpoch(mode)
    \/ \E c \in TrainCalls, step \in 0..MaxStep : DoTrainBatchLogging(c, step)
    \/ \E c \in EvalCalls : DoEvalEpochLogging("valid", c)
    \/ \E mode \in {"train", "valid"}, n \in 1..MaxLogCalls :
          EndOfEpochLogged(mode, n)
    \/ \E mode \in {"train", "valid"}, e \in BOOLEAN : LogBatch(mode, e)

Spec == Init /\ [][Next]_vars

\* ------------------------------------------------------------ the plotter's file names
TitleToFn ==
    /\ ~fn.done
    /\ fn' = [done |-> TRUE, name |-> title_to_fn(title)]
    /\ UNCHANGED <<args, metrics, exc, log_rows, wandb, passed, es, budget, title>>

Chars == {"A", "b", "\n", " ", ",", "=", "[", "]", "(", ")", ".", "$"}

Titles == UNION {[1..n -> Chars] : n \in 0..MaxTitleLen}

\* The titles main gives plot for a model called "Run.1".
MainTitles ==
    { MainTitle(<<"R", "u", "n", ".", "1">>, m, k) :
        m \in {<<"d", "r", "m", "s", "d">>, <<"l", "n", "_", "d", "r", "m", "s", "d">>},
        k \in {<<>>, <<"5">>, <<"1", "0", "0">>} }

InitTitle ==
    /\ args = DefaultArgs
    /\ metrics = init_metrics(args)
    /\ exc = "none"
    /\ log_rows = <<>>
    /\ wandb = <<>>
    /\ passed = [m \in Modes |-> NewPassed]
    /\ es = NewEs
    /\ budget = [calls |-> 0]
    /\ title \in Titles \cup MainTitles
    /\ fn = NoFn

NextTitle == TitleToFn

SpecTitle == InitTitle /\ [][NextTitle]_vars

\* ------------------------------------------------------------ claims on the accumulator
LossFields == {"drmsd", "ln_drmsd", "mse", "combined"}

EpochField(s, f) ==
    CASE f = "drmsd" -> s.epoch_drmsd
      [] f = "ln_drmsd" -> s.epoch_ln_drmsd
      [] f = "mse" -> s.epoch_mse
      [] f = "combined" -> s.epoch_combined

BatchField(s, f) ==
    CASE f = "drmsd" -> s.batch_drmsd
      [] f = "ln_drmsd" -> s.batch_ln_drmsd
      [] f = "mse" -> s.batch_mse
      [] f = "combined" -> s.batch_combined

UpdatesOnly(ev) == \A i \in 1..Len(ev) : ev[i].op = "update"

\* The sum of field f over the calls of ev (whole numbers here).
RECURSIVE FieldSum(_, _)
FieldSum(ev, f) ==
    IF ev = <<>> THEN 0 ELSE ev[1].c[f].n + FieldSum(Tail(ev), f)

Front(ev) == SubSeq(ev, 1, Len(ev) - 1)

\* C1: after reset_metrics_for_epoch(split) and n >= 1 update_metrics calls,
\* each of the split's four epoch values is the exact sum of the values
\* passed; after update_metrics_end_of_epoch(split, n) on top of that it is
\* their arithmetic mean.
C1_EpochSumsAndMeans ==
    \A mode \in Modes :
        LET ev == passed[mode].ev
            s == metrics[mode]
        IN passed[mode].reset =>
            /\ (Len(ev) >= 1 /\ UpdatesOnly(ev)) =>
                  \A f \in LossFields : EpochField(s, f) = F(FieldSum(ev, f))
            /\ (/\ Len(ev) >= 2
                /\ UpdatesOnly(Front(ev))
                /\ ev[Len(ev)].op = "end"
                /\ ev[Len(ev)].n = Len(ev) - 1) =>
                  \A f \in LossFields :
                      EpochField(s, f) = Norm(FieldSum(Front(ev), f), Len(ev) - 1)

\* Two updates with drmsd 1 and 0 (in either order), then the end of the
\* epoch with n = 2: the mean is 1/2.
C1_Witness ==
    \E mode \in Modes :
        LET ev == passed[mode].ev IN
        /\ passed[mode].reset
        /\ Len(ev) = 3
        /\ UpdatesOnly(Front(ev))
        /\ ev[3].op = "end" /\ ev[3].n = 2
        /\ ev[1].c.batch_level # ev[2].c.batch_level
        /\ metrics[mode].epoch_drmsd = [k |-> "num", n |-> 1, d |-> 2]

\* C5: a reset_metrics_for_epoch(metrics, split) step leaves the split's
\* epoch and batch values of the four losses at zero and its batch history
\* and speed history empty, and changes nothing in the other splits, the
\* learning-rate history, best_valid_loss_so_far or epoch_last_improved.
C5_ResetFrame ==
    [][\A mode \in Modes : ResetMetricsForEpoch(mode) =>
          /\ \A f \in LossFields :
                /\ EpochField(metrics'[mode], f) = F(0)
                /\ BatchField(metrics'[mode], f) = F(0)
          /\ metrics'[mode].batch_history = <<>>
          /\ metrics'[mode].speed_history = <<>>
          /\ \A o \in Modes \ {mode} : metrics'[o] = metrics[o]
          /\ metrics'.history_lr = metrics.history_lr
          /\ metrics'.best_valid_loss_so_far = metrics.best_valid_loss_so_far
          /\ metrics'.epoch_last_improved = metrics.epoch_last_improved]_vars

\* A split reset again after an epoch of its own was finished, while
\* another split is in the middle of its epoch.
C5_Witness ==
    \E mode \in Modes :
        /\ passed[mode].reset /\ passed[mode].ev = <<>>
        /\ metrics[mode].epoch_history_drmsd # <<>>
        /\ metrics[mode].speed_history = <<>>
        /\ \E o \in Modes \ {mode} : passed[o].reset /\ passed[o].ev # <<>>

\* The tracking losses of the calls of ev, in order.
RECURSIVE TrackingLosses(_)
TrackingLosses(ev) ==
    IF ev = <<>> THEN <<>> ELSE <<ev[1].c.tracking_loss>> \o TrackingLosses(Tail(ev))

\* C8: after a reset and k update_metrics calls with batch_level true, each
\* given a tracking loss, the split's batch fields hold the last call's
\* values and its batch history is the k tracking losses in order, whatever
\* their value (zero included).
C8_BatchHistoryHoldsEveryTrackingLoss ==
    \A mode \in Modes :
        LET ev == passed[mode].ev
            s == metrics[mode]
        IN (/\ passed[mode].reset
            /\ exc = "none"
            /\ Len(ev) >= 1
            /\ \A i \in 1..Len(ev) :
                  /\ ev[i].op = "update"
                  /\ ev[i].c.batch_level
                  /\ ev[i].c.tracking_loss # None) =>
              /\ \A f \in LossFields : BatchField(s, f) = ev[Len(ev)].c[f]
              /\ s.batch_history = TrackingLosses(ev)

\* ------------------------------------------------------------ claims on early stopping
\* C2: with a patience P >= 1, calls at consecutive epoch indices and at
\* least one improving epoch, EarlyStoppingCondition is raised on the
\* (P+1)-th non-improving epoch after the last improvement: not before, not
\* later, and once.
C2_RaisedOnEpochAfterPatience ==
    (/\ args.early_stopping # None
     /\ args.early_stopping.n >= 1
     /\ es.consecutive
     /\ es.improved) =>
        /\ es.since <= args.early_stopping.n + 1
        /\ (exc = "EarlyStoppingCondition") <=>
               (es.since = args.early_stopping.n + 1)
        /\ es.raised = (IF es.since = args.early_stopping.n + 1 THEN 1 ELSE 0)

\* Patience 2: an improvement at the second epoch, then three epochs without
\* one; the exception ended the third of them.
C2_Witness ==
    /\ args.early_stopping = F(2)
    /\ args.combined_loss
    /\ es.consecutive
    /\ es.calls = 5
    /\ es.since = 3
    /\ metrics.epoch_last_improved = es.last_epoch - 3
    /\ es.raised = 1
    /\ exc = "EarlyStoppingCondition"

\* C3: in every step best_valid_loss_so_far does not increase; it and
\* epoch_last_improved change only if the compared epoch mean is strictly
\* below the previous best, and a mean equal to the best changes neither.
C3_BestNeverIncreases ==
    [][LET loss == CmpLoss(args, metrics)
           best == metrics.best_valid_loss_so_far
       IN /\ ~FLess(best, metrics'.best_valid_loss_so_far)
          /\ (metrics'.epoch_last_improved # metrics.epoch_last_improved
                \/ metrics'.best_valid_loss_so_far # best) =>
                /\ loss.k # "missing"
                /\ FLess(loss, best)
                /\ metrics'.best_valid_loss_so_far = loss
          /\ (loss = best) =>
                /\ metrics'.best_valid_loss_so_far = best
                /\ metrics'.epoch_last_improved = metrics.epoch_last_improved
      ]_vars

\* A call compared a mean equal to the best so far, at a later epoch than
\* the one that set it.
C3_Witness ==
    /\ es.calls >= 2
    /\ es.since >= 1
    /\ metrics.loss_to_compare = metrics.best_valid_loss_so_far
    /\ metrics.epoch_last_improved < es.last_epoch
    /\ exc = "none"

\* C4: with args.early_stopping unset, EarlyStoppingCondition is never
\* raised.
C4_NoPatienceNeverStops ==
    args.early_stopping = None => (exc # "EarlyStoppingCondition" /\ es.raised = 0)

\* Unset patience, and the latest call came three epochs or more after the
\* last improvement.
C4_Witness ==
    /\ args.early_stopping = None
    /\ es.improved
    /\ es.since >= 2
    /\ es.last_epoch - metrics.epoch_last_improved >= 3
    /\ metrics.loss_to_compare.k = "num"
    /\ exc = "none"

\* ------------------------------------------------------------ claims on logging
\* The quantities of a row, in the order written.
RowColumns(row) == [i \in 1..Len(row) |-> row[i].col]

\* C6: every row written has exactly the columns of prepare_log_header for
\* the same configuration, in the same order (so the combined value is in the
\* row only in combined-loss mode).
C6_RowMatchesHeader ==
    \A i \in 1..Len(log_rows) :
        RowColumns(log_rows[i].row) = prepare_log_header(args)

\* C7: once the training split has been reset, the process exits with
\* status 1 in the first do_train_batch_logging call whose loss is NaN and in
\* no other: a NaN loss is the loss of the last batch accumulated and the
\* process has exited; an exit has a NaN loss as that last loss, and its
\* call forwarded no point cloud.
C7_ExitOnFirstNanLoss ==
    LET ev == passed["train"].ev IN
    passed["train"].reset =>
        /\ \A i \in 1..Len(ev) :
              ev[i].c.tracking_loss = NaN =>
                  (i = Len(ev) /\ exc = "SystemExit(1)")
        /\ exc = "SystemExit(1)" =>
              /\ Len(ev) >= 1
              /\ ev[Len(ev)].c.tracking_loss = NaN
              /\ Len(log_rows) >= 1
              /\ \A j \in 1..Len(wandb) :
                    wandb[j].what \notin {"backbone_cloud", "structure_cloud"}

\* A batch with a sound loss, then a batch with a NaN loss at a step where
\* the structure would have been logged: the process exited before that.
C7_Witness ==
    /\ exc = "SystemExit(1)"
    /\ passed["train"].reset
    /\ Len(passed["train"].ev) = 2
    /\ passed["train"].ev[1].c.tracking_loss = F(1)
    /\ Len(log_rows) = 2
    /\ ~args.lr_scheduling
    /\ wandb = <<[what |-> "train", commit |-> FALSE]>>

\* C10: the granularity of a row is the batch marker when the row was
\* written with end_of_epoch false and the epoch marker when it was written
\* with end_of_epoch true.
C10_GranularityTellsBatchFromEpoch ==
    \A i \in 1..Len(log_rows) :
        \A j \in 1..Len(log_rows[i].row) :
            log_rows[i].row[j].col = "granularity" =>
                log_rows[i].row[j].val = BatchOrEpoch(log_rows[i].end_of_epoch)

\* The dashboard calls w of one batch are flushed together: the last one
\* has commit true and no earlier one has.
CommitsOnceAtTheEnd(w) ==
    /\ w[Len(w)].commit
    /\ \A j \in 1..(Len(w) - 1) : ~w[j].commit
    /\ Cardinality({j \in 1..Len(w) : w[j].commit}) = 1

\* A step of Spec that is one do_train_batch_logging call: the only action
\* of Spec that records a batch accumulated into the training split.
TrainBatchLogged ==
    LET ev == passed'["train"].ev IN
    /\ Len(ev) = Len(passed["train"].ev) + 1
    /\ ev[Len(ev)].op = "update"

\* C11: in every do_train_batch_logging call with a loss that is not NaN
\* and with at least one dashboard call, whatever lr_scheduling, step,
\* log_wandb_step and log_structure_step are, exactly one of the call's
\* dashboard calls has commit true and it is the last one of the call;
\* every earlier one has commit false.
C11_OneCommitAndItIsLast ==
    [][(/\ TrainBatchLogged
        /\ passed'["train"].ev[Len(passed'["train"].ev)].c.tracking_loss # NaN
        /\ wandb' # <<>>)
       => CommitsOnceAtTheEnd(wandb')]_vars

\* A call under learning-rate scheduling at a step where both the scalars
\* and the structure are logged: four dashboard calls, the last one commits.
C11_Witness ==
    /\ exc = "none"
    /\ args.lr_scheduling
    /\ Len(passed["train"].ev) >= 1
    /\ passed["train"].ev[Len(passed["train"].ev)].c.tracking_loss # NaN
    /\ wandb = <<[what |-> "train", commit |-> FALSE],
                 [what |-> "lr", commit |-> FALSE],
                 [what |-> "backbone_cloud", commit |-> FALSE],
                 [what |-> "structure_cloud", commit |-> TRUE]>>

\* ------------------------------------------------------------ claims on the plotter
Letters(seq) == {seq[i] : i \in 1..Len(seq)}

\* C9: what title_to_fn returns has no uppercase letter and none of the
\* characters space , = [ ] ( ) . $
C9_FileNameIsClean ==
    fn.done =>
        \A i \in 1..Len(fn.name) :
            fn.name[i] \notin Letters(UpperCase) \cup
                {" ", ",", "=", "[", "]", "(", ")", ".", "$"}

\* main's title "Run.1\ndrmsd Loss, t = [5, )" became "drmsd_loss_t_5_".
C9_Witness ==
    /\ fn.done
    /\ title = MainTitle(<<"R", "u", "n", ".", "1">>, <<"d", "r", "m", "s", "d">>, <<"5">>)
    /\ fn.name = <<"d", "r", "m", "s", "d", "_", "l", "o", "s", "s", "_", "t",
                   "_", "5", "_">>

====
